---- MODULE Spec2Model ----
(***************************************************************************)
(* The SOCKS5 address codec of src/protocol/address.rs: the Address value, *)
(* its wire form (ATYP tag, payload, big-endian port), the buffer decoder  *)
(* from_data, the writer write_to_buf, the length computations and the     *)
(* asynchronous reader addr_data_from_stream / from_stream.                *)
(*                                                                         *)
(* A byte is a number in 0..255, a byte slice / Vec<u8> / String is a      *)
(* sequence of bytes (a String is a sequence that is valid UTF-8), an      *)
(* io::Result is a record tagged Ok / Err, and a panic of the program is   *)
(* the record tagged Panic.                                                *)
(***************************************************************************)
EXTENDS Integers, Sequences, FiniteSets, TLC

---------------------------------------------------------------------------
(* Program constants *)

ATYP_IPV4 == 1

ATYP_DOMAIN == 3

ATYP_IPV6 == 4

\* u8::MAX
U8_MAX == 255

---------------------------------------------------------------------------
(* Bounds of the model *)

\* arbitrary byte slices / stream contents: every sequence over SampleBytes
\* of at most this length
MaxShort == 4

\* bytes that follow the tag and the length byte of the sampled domain frames
MaxBody == 5

\* length of the exhaustively enumerated domain names
MaxName == 2

\* sampled long names run from U8_MAX - 1 to U8_MAX + MaxOver bytes
MaxOver == 2

\* bytes that follow a complete address on the wire
MaxExtra == 2

\* a partial read delivers at most this many bytes, or all that are asked for
MaxChunk == 2

---------------------------------------------------------------------------
(* Values *)

None == [tag |-> "None"]

Ok(v) == [tag |-> "Ok", value |-> v]

\* io::Error: its kind and, for the unsupported address type, the tag its
\* message carries (0 otherwise)
Err(kind, atyp) == [tag |-> "Err", kind |-> kind, atyp |-> atyp]

\* the thread panicked (slice index out of range)
Panic == [tag |-> "Panic"]

UnexpectedEof == Err("UnexpectedEof", 0)

\* SocketAddr::V4(SocketAddrV4): ip is the four octets
V4(ip, port) == [family |-> "V4", ip |-> ip, port |-> port]

\* SocketAddr::V6(SocketAddrV6): ip is the eight 16-bit segments
V6(ip, port, flowinfo, scope_id) ==
    [family |-> "V6", ip |-> ip, port |-> port,
     flowinfo |-> flowinfo, scope_id |-> scope_id]

\* SocketAddr::from((Ipv6Addr, u16)): flowinfo and scope_id are 0
V6From(ip, port) == V6(ip, port, 0, 0)

SocketAddress(addr) == [variant |-> "SocketAddress", addr |-> addr]

DomainAddress(name, port) ==
    [variant |-> "DomainAddress", name |-> name, port |-> port]

\* Address::unspecified()
unspecified == SocketAddress(V4(<<0, 0, 0, 0>>, 0))

---------------------------------------------------------------------------
(* Bytes, big-endian integers, UTF-8 *)

Min(a, b) == IF a < b THEN a ELSE b

\* data[from..to] of Rust with 0-based from (inclusive) and to (exclusive)
Slice(data, from, to) == SubSeq(data, from + 1, to)

Repeat(b, n) == [i \in 1..n |-> b]

\* `x as u8`
AsU8(x) == x % (U8_MAX + 1)

\* BufMut::put_u16: the two bytes of v, most significant first
put_u16(v) == <<v \div 256, v % 256>>

\* the port read least significant byte first
U16LE(hi, lo) == lo * 256 + hi

\* u16::from_be_bytes
U16BE(hi, lo) == hi * 256 + lo

IsCont(b) == b >= 128 /\ b <= 191

\* The number of bytes of the well-formed UTF-8 sequence that starts at s[i],
\* 0 when there is none (core::str::from_utf8's validation: no overlong
\* forms, no surrogates, nothing above U+10FFFF)
Utf8Width(s, i) ==
    LET b == s[i]
        n == Len(s)
        c1 == IF i + 1 <= n THEN s[i + 1] ELSE 0
        c2 == IF i + 2 <= n THEN s[i + 2] ELSE 0
        c3 == IF i + 3 <= n THEN s[i + 3] ELSE 0
    IN  IF b <= 127 THEN 1
        ELSE IF b >= 194 /\ b <= 223
             THEN IF IsCont(c1) THEN 2 ELSE 0
        ELSE IF b = 224
             THEN IF c1 >= 160 /\ c1 <= 191 /\ IsCont(c2) THEN 3 ELSE 0
        ELSE IF (b >= 225 /\ b <= 236) \/ b = 238 \/ b = 239
             THEN IF IsCont(c1) /\ IsCont(c2) THEN 3 ELSE 0
        ELSE IF b = 237
             THEN IF c1 >= 128 /\ c1 <= 159 /\ IsCont(c2) THEN 3 ELSE 0
        ELSE IF b = 240
             THEN IF c1 >= 144 /\ c1 <= 191 /\ IsCont(c2) /\ IsCont(c3)
                  THEN 4 ELSE 0
        ELSE IF b >= 241 /\ b <= 243
             THEN IF IsCont(c1) /\ IsCont(c2) /\ IsCont(c3) THEN 4 ELSE 0
        ELSE IF b = 244
             THEN IF c1 >= 128 /\ c1 <= 143 /\ IsCont(c2) /\ IsCont(c3)
                  THEN 4 ELSE 0
        ELSE 0

\* String::from_utf8(s).is_ok(): every byte either starts a well-formed
\* sequence or is a continuation byte that the well-formed sequence starting
\* at most three bytes before it covers. (Well-formed sequences cannot
\* overlap, so this is the validator's left-to-right scan.)
IsUtf8(s) ==
    \A i \in 1..Len(s) :
        IF IsCont(s[i])
        THEN \E j \in (i - 3)..(i - 1) : j >= 1 /\ Utf8Width(s, j) > i - j
        ELSE Utf8Width(s, i) > 0

---------------------------------------------------------------------------
(* The codec: pure functions of address.rs *)

\* ReadBytesExt::read_u8 on a Cursor at position pos (0-based)
read_u8(data, pos) ==
    IF pos + 1 <= Len(data) THEN Ok(data[pos + 1]) ELSE UnexpectedEof

\* ReadBytesExt::read_u16::<BigEndian> on a Cursor at position pos
read_u16(data, pos) ==
    IF pos + 2 <= Len(data)
    THEN Ok(U16BE(data[pos + 1], data[pos + 2]))
    ELSE UnexpectedEof

\* the ATYP_IPV4 arm of from_data: four read_u8, then the port
from_data_ipv4(data) ==
    LET o == [i \in 1..4 |-> read_u8(data, i)]
        port == read_u16(data, 5)
    IN  IF \E i \in 1..4 : o[i].tag = "Err" THEN UnexpectedEof
        ELSE IF port.tag = "Err" THEN port
        ELSE Ok(SocketAddress(V4([i \in 1..4 |-> o[i].value], port.value)))

\* the ATYP_IPV6 arm of from_data: eight read_u16, then the port
from_data_ipv6(data) ==
    LET s == [i \in 1..8 |-> read_u16(data, 2 * i - 1)]
        port == read_u16(data, 17)
    IN  IF \E i \in 1..8 : s[i].tag = "Err" THEN UnexpectedEof
        ELSE IF port.tag = "Err" THEN port
        ELSE Ok(SocketAddress(V6From([i \in 1..8 |-> s[i].value], port.value)))

\* the end of the range data[2..2 + len + 2]
DomainSliceEnd(len) == 2 + len + 2

\* the ATYP_DOMAIN arm of from_data
from_data_domain(data) ==
    LET len == read_u8(data, 1)
    IN  IF len.tag = "Err" THEN len
        ELSE IF DomainSliceEnd(len.value) > Len(data) THEN Panic
        ELSE LET buf == Slice(data, 2, DomainSliceEnd(len.value))
                 port == read_u16(buf, len.value)
                 name == SubSeq(buf, 1, len.value)
             IN  IF port.tag = "Err" THEN port
                 ELSE IF ~IsUtf8(name) THEN Err("InvalidData", 0)
                 ELSE Ok(DomainAddress(name, port.value))

\* from_data with the IPv6 arm as the wildcard arm of the match
from_data_wild(data) ==
    LET atyp == read_u8(data, 0)
    IN  IF atyp.tag = "Err" THEN atyp
        ELSE IF atyp.value = ATYP_IPV4 THEN from_data_ipv4(data)
        ELSE IF atyp.value = ATYP_DOMAIN THEN from_data_domain(data)
        ELSE from_data_ipv6(data)

from_data(data) ==
    LET atyp == read_u8(data, 0)
    IN  IF atyp.tag = "Err" THEN atyp
        ELSE IF atyp.value = ATYP_IPV4 THEN from_data_ipv4(data)
        ELSE IF atyp.value = ATYP_DOMAIN THEN from_data_domain(data)
        ELSE IF atyp.value = ATYP_IPV6 THEN from_data_ipv6(data)
        ELSE Err("Unsupported", atyp.value)

\* the bytes write_to_buf puts, in order
WireBytes(self) ==
    IF self.variant = "SocketAddress"
    THEN IF self.addr.family = "V4"
         THEN <<ATYP_IPV4>> \o self.addr.ip \o put_u16(self.addr.port)
         ELSE <<ATYP_IPV6>>
              \o [i \in 1..16 |-> put_u16(self.addr.ip[(i + 1) \div 2])[2 - (i % 2)]]
              \o put_u16(self.addr.port)
    ELSE <<ATYP_DOMAIN>> \o <<AsU8(Len(self.name))>> \o self.name
         \o put_u16(self.port)

\* write_to_buf on a Vec<u8>: appends, whatever buf holds
write_to_buf(self, buf) == buf \o WireBytes(self)

\* serialized_len that forgets the domain's length byte
serialized_len_short(self) ==
    1 + IF self.variant = "SocketAddress"
        THEN IF self.addr.family = "V4" THEN 6 ELSE 18
        ELSE Len(self.name) + 2

serialized_len(self) ==
    1 + IF self.variant = "SocketAddress"
        THEN IF self.addr.family = "V4" THEN 6 ELSE 18
        ELSE 1 + Len(self.name) + 2

max_serialized_len == 1 + 1 + U8_MAX + 2

---------------------------------------------------------------------------
(* The inputs the model draws from *)

SeqsUpTo(S, n) == UNION {[1..k -> S] : k \in 0..n}

Prefixes(w) == {SubSeq(w, 1, n) : n \in 0..Len(w)}

\* w cut to its first few bytes, or with a few bytes cut off its end
Cuts(w) ==
    {SubSeq(w, 1, n) :
        n \in {m \in 0..Len(w) : m <= MaxExtra + 2 \/ m >= Len(w) - MaxExtra}}

\* tags, length bytes, ASCII 'a', and the two bytes of U+00E9
SampleBytes == {0, 1, 2, 3, 4, 97, 195, 169}

\* 'a', '.', the two bytes of U+00E9, and a byte no UTF-8 text holds
NameBytes == {97, 46, 195, 169, 255}

Ports == {0, 53, 443, 8080, 24929, 65535}

Ipv4Addrs == {<<0, 0, 0, 0>>, <<127, 0, 0, 1>>, <<203, 0, 113, 5>>,
              <<255, 255, 255, 255>>}

Ipv6Addrs == {<<0, 0, 0, 0, 0, 0, 0, 1>>,
              <<8193, 3512, 0, 0, 0, 0, 255, 65535>>}

SocketAddrs ==
    {V4(ip, port) : ip \in Ipv4Addrs, port \in Ports}
    \cup {V6(ip, port, f, s) : ip \in Ipv6Addrs, port \in Ports,
                               f \in {0, 1}, s \in {0, 7}}

\* "example.com" and "203.0.113.5"
ExampleCom == <<101, 120, 97, 109, 112, 108, 101, 46, 99, 111, 109>>

IpLiteral == <<50, 48, 51, 46, 48, 46, 49, 49, 51, 46, 53>>

LongLens == (U8_MAX - 1)..(U8_MAX + MaxOver)

\* every String the model builds an Address from: valid UTF-8 of any length
Names ==
    {n \in SeqsUpTo(NameBytes, MaxName) : IsUtf8(n)}
    \cup {ExampleCom, IpLiteral}
    \cup {Repeat(97, n) : n \in LongLens}
    \cup {[i \in 1..n |-> IF i % 2 = 1 THEN 195 ELSE 169] :
            n \in {m \in LongLens : m % 2 = 0}}

\* addresses whose wire form is fed back as input
WireAddresses ==
    {SocketAddress(V4(ip, 8080)) : ip \in Ipv4Addrs}
    \cup {SocketAddress(V6From(ip, 53)) : ip \in Ipv6Addrs}
    \cup {DomainAddress(n, 443) :
            n \in {ExampleCom, IpLiteral, <<195, 169>>, <<97, 255>>}
                  \cup {Repeat(97, k) : k \in LongLens}}

Extras == SeqsUpTo({97}, MaxExtra)

UnsupportedTags == {0, 2, 5, 127, 255}

\* byte sequences handed to from_data and delivered by streams: arbitrary
\* short ones, domain frames whose length byte and body disagree, wire forms
\* whole, truncated and followed by more bytes, and frames of unknown tag
Inputs ==
    SeqsUpTo(SampleBytes, MaxShort)
    \cup {<<ATYP_DOMAIN, l>> \o body :
            l \in (0..(MaxName + 1)) \cup {U8_MAX},
            body \in SeqsUpTo(NameBytes, MaxBody)}
    \cup UNION {IF a.variant = "SocketAddress"
                THEN Prefixes(WireBytes(a) \o e)
                ELSE Cuts(WireBytes(a) \o e) :
                a \in WireAddresses, e \in Extras}
    \cup {<<t>> \o Slice(WireBytes(a), 1, Len(WireBytes(a))) :
            t \in UnsupportedTags, a \in WireAddresses}

---------------------------------------------------------------------------
(* State *)

VARIABLES
    \* the codec used on buffers
    cpc,        \* "start", "built", "written", "decoded", "failed"
    address,    \* the Address being held, None before construction
    data,       \* the slice given to from_data by TryFrom<Vec<u8>>
    decoded,    \* what from_data(data) returned
    out,        \* the output buffer of write_to_buf
    mark,       \* out.len() before write_to_buf
    slen,       \* what serialized_len returned, -1 before the call
    back,       \* what from_data returned for the bytes written
    \* one call of from_stream
    input,      \* every byte the stream will deliver before its end
    consumed,   \* bytes read from the stream so far
    pc,         \* "idle", "read_atyp", "read_len", "read_exact", "done"
    len,        \* the domain length byte
    need,       \* buf.len() of the pending read_exact
    buf,        \* the part of buf read_exact has filled
    addr_data,  \* the Vec addr_data_from_stream builds
    addr_ret,   \* what addr_data_from_stream returned
    result      \* what from_stream returned

codecVars == <<cpc, address, data, decoded, out, mark, slen, back>>

streamVars ==
    <<input, consumed, pc, len, need, buf, addr_data, addr_ret, result>>

vars == <<cpc, address, data, decoded, out, mark, slen, back,
          input, consumed, pc, len, need, buf, addr_data, addr_ret, result>>

CodecIdle ==
    /\ cpc = "start"
    /\ address = None
    /\ data = <<>>
    /\ decoded = None
    /\ out = <<>>
    /\ mark = 0
    /\ slen = -1
    /\ back = None

StreamIdle ==
    /\ input = <<>>
    /\ consumed = 0
    /\ pc = "idle"
    /\ len = 0
    /\ need = 0
    /\ buf = <<>>
    /\ addr_data = <<>>
    /\ addr_ret = None
    /\ result = None

---------------------------------------------------------------------------
(* The codec on buffers *)

Built(a) ==
    /\ address' = a
    /\ cpc' = "built"
    /\ UNCHANGED <<data, decoded, out, mark, slen, back>>
    /\ UNCHANGED streamVars

\* impl From<SocketAddr> for Address
FromSocketAddr ==
    /\ cpc = "start"
    /\ \E addr \in SocketAddrs : Built(SocketAddress(addr))

\* impl From<(Ipv4Addr, u16)> for Address
FromIpv4Port ==
    /\ cpc = "start"
    /\ \E addr \in Ipv4Addrs, port \in Ports :
        Built(SocketAddress(V4(addr, port)))

\* impl From<(Ipv6Addr, u16)> for Address
FromIpv6Port ==
    /\ cpc = "start"
    /\ \E addr \in Ipv6Addrs, port \in Ports :
        Built(SocketAddress(V6From(addr, port)))

\* impl From<(String, u16)> for Address
FromStringPort ==
    /\ cpc = "start"
    /\ \E addr \in Names, port \in Ports : Built(DomainAddress(addr, port))

\* impl From<(&str, u16)> for Address: addr.to_owned()
FromStrPort ==
    /\ cpc = "start"
    /\ \E addr \in Names, port \in Ports : Built(DomainAddress(addr, port))

\* impl TryFrom<Vec<u8>> for Address: from_data(&data)
TryFromVec ==
    /\ cpc = "start"
    /\ \E d \in Inputs :
        LET r == from_data(d)
        IN  /\ data' = d
            /\ decoded' = r
            /\ address' = IF r.tag = "Ok" THEN r.value ELSE None
            /\ cpc' = IF r.tag = "Ok" THEN "built" ELSE "failed"
    /\ UNCHANGED <<out, mark, slen, back>>
    /\ UNCHANGED streamVars

\* address.write_to_buf(&mut out)
WriteToBuf ==
    /\ cpc = "built"
    /\ mark' = Len(out)
    /\ out' = write_to_buf(address, out)
    /\ cpc' = "written"
    /\ UNCHANGED <<address, data, decoded, slen, back>>
    /\ UNCHANGED streamVars

\* address.serialized_len()
SerializedLen ==
    /\ cpc \in {"built", "written"}
    /\ slen = -1
    /\ slen' = serialized_len(address)
    /\ UNCHANGED <<cpc, address, data, decoded, out, mark, back>>
    /\ UNCHANGED streamVars

\* the bytes write_to_buf appended
Written == Slice(out, mark, Len(out))

\* Address::from_data(&out[mark..]): decoding what was written
DecodeWritten ==
    /\ cpc = "written"
    /\ back' = from_data(Written)
    /\ cpc' = "decoded"
    /\ UNCHANGED <<address, data, decoded, out, mark, slen>>
    /\ UNCHANGED streamVars

InitCodec ==
    /\ cpc = "start"
    /\ address = None
    /\ data = <<>>
    /\ decoded = None
    /\ out \in Extras
    /\ mark = 0
    /\ slen = -1
    /\ back = None
    /\ StreamIdle

NextCodec ==
    \/ FromSocketAddr
    \/ FromIpv4Port
    \/ FromIpv6Port
    \/ FromStringPort
    \/ FromStrPort
    \/ TryFromVec
    \/ WriteToBuf
    \/ SerializedLen
    \/ DecodeWritten

SpecCodec == InitCodec /\ [][NextCodec]_vars

---------------------------------------------------------------------------
(* One call of from_stream, which awaits addr_data_from_stream and hands   *)
(* its buffer to from_data. Each action is one completed read of the       *)
(* stream together with the code that runs up to the next await.           *)

Supported == {ATYP_IPV4, ATYP_DOMAIN, ATYP_IPV6}

\* the stream has bytes left to deliver
Available == Len(input) - consumed

Awaiting == pc \in {"read_atyp", "read_len", "read_exact"}

\* `let mut buf = [0; 6]` and `let mut buf = [0; 18]`
FixedBufLen(atyp) == IF atyp = ATYP_IPV4 THEN 6 ELSE 18

\* a buffer for the name without the port
DomainBufLenNoPort(l) == l

\* `let mut buf = vec![0; len + 2]`
DomainBufLen(l) == l + 2

\* addr_data with the length byte pushed after the payload
AssembleLenLast(head, l, b) ==
    IF head[1] = ATYP_DOMAIN THEN head \o b \o <<l>> ELSE head \o b

\* addr_data once read_exact has filled buf: for a domain the length byte is
\* pushed before the payload
Assemble(head, l, b) ==
    IF head[1] = ATYP_DOMAIN THEN head \o <<l>> \o b ELSE head \o b

\* both calls return: addr_data_from_stream with r, and from_stream with r
\* when r is an error (the `?`), with from_data(&addr_data) otherwise
Return(r) ==
    /\ addr_ret' = r
    /\ result' = IF r.tag = "Ok" THEN from_data(r.value) ELSE r
    /\ pc' = "done"

\* ReadAtyp with the IPv6 arm as the wildcard arm of the match
ReadAtypWild ==
    /\ pc = "read_atyp"
    /\ Available > 0
    /\ LET atyp == input[consumed + 1]
       IN  /\ consumed' = consumed + 1
           /\ addr_data' = <<atyp>>
           /\ IF atyp = ATYP_DOMAIN
              THEN /\ pc' = "read_len"
                   /\ UNCHANGED <<need, addr_ret, result>>
              ELSE /\ need' = FixedBufLen(atyp)
                   /\ pc' = "read_exact"
                   /\ UNCHANGED <<addr_ret, result>>
    /\ UNCHANGED <<input, len, buf>>
    /\ UNCHANGED codecVars

\* `let atyp = stream.read_u8().await?; addr_data.push(atyp); match atyp`
ReadAtyp ==
    /\ pc = "read_atyp"
    /\ Available > 0
    /\ LET atyp == input[consumed + 1]
       IN  /\ consumed' = consumed + 1
                  /\ addr_data' = <<atyp>>
           /\ IF atyp \in {ATYP_IPV4, ATYP_IPV6}
              THEN /\ need' = FixedBufLen(atyp)
                   /\ pc' = "read_exact"
                   /\ UNCHANGED <<addr_ret, result>>
              ELSE IF atyp = ATYP_DOMAIN
              THEN /\ pc' = "read_len"
                   /\ UNCHANGED <<need, addr_ret, result>>
              ELSE /\ Return(Err("Unsupported", atyp))
                   /\ UNCHANGED need
    /\ UNCHANGED <<input, len, buf>>
    /\ UNCHANGED codecVars

\* `let len = stream.read_u8().await? as usize; let mut buf = vec![0; len + 2]`
ReadLen ==
    /\ pc = "read_len"
    /\ Available > 0
    /\ len' = input[consumed + 1]
    /\ need' = DomainBufLen(input[consumed + 1])
    /\ consumed' = consumed + 1
    /\ pc' = "read_exact"
    /\ UNCHANGED <<input, buf, addr_data, addr_ret, result>>
    /\ UNCHANGED codecVars

\* the sizes of the next partial read: any number of bytes the stream has
\* and read_exact still asks for
ChunkSizes ==
    LET most == Min(need - Len(buf), Available)
    IN  {k \in 1..most : k <= MaxChunk \/ k = most}

\* `stream.read_exact(&mut buf).await?`: one partial read; when it fills buf,
\* addr_data is completed and returned
ReadExact ==
    /\ pc = "read_exact"
    /\ Available > 0
    /\ \E k \in ChunkSizes :
        LET filled == buf \o Slice(input, consumed, consumed + k)
        IN  /\ consumed' = consumed + k
                    /\ buf' = filled
            /\ IF Len(filled) = need
               THEN /\ addr_data' = Assemble(addr_data, len, filled)
                    /\ Return(Ok(Assemble(addr_data, len, filled)))
               ELSE UNCHANGED <<addr_data, addr_ret, result, pc>>
    /\ UNCHANGED <<input, len, need>>
    /\ UNCHANGED codecVars

\* the end of the stream taken as the end of the address: what has arrived
\* is returned (a plain read in place of read_exact)
EndOfStreamPartial ==
    /\ Awaiting
    /\ Available = 0
    /\ Return(Ok(addr_data \o buf))
    /\ UNCHANGED <<input, consumed, len, need, buf, addr_data>>
    /\ UNCHANGED codecVars

\* a read finds the stream at its end: read_u8 and read_exact fail with
\* UnexpectedEof, which `?` returns
EndOfStream ==
    /\ Awaiting
    /\ Available = 0
    /\ Return(UnexpectedEof)
    /\ UNCHANGED <<input, consumed, len, need, buf, addr_data>>
    /\ UNCHANGED codecVars

\* a read fails with an error of the stream's own, which `?` returns
StreamError ==
    /\ Awaiting
    /\ Return(Err("Other", 0))
    /\ UNCHANGED <<input, consumed, len, need, buf, addr_data>>
    /\ UNCHANGED codecVars

Init ==
    /\ CodecIdle
    /\ input \in Inputs
    /\ consumed = 0
    /\ pc = "read_atyp"
    /\ len = 0
    /\ need = 0
    /\ buf = <<>>
    /\ addr_data = <<>>
    /\ addr_ret = None
    /\ result = None

Next ==
    \/ ReadAtyp
    \/ ReadLen
    \/ ReadExact
    \/ EndOfStream
    \/ StreamError

Spec == Init /\ [][Next]_vars

---------------------------------------------------------------------------
(* Properties *)

\* same variant, same ip or name, same port
SameAddress(a, b) ==
    /\ a.variant = b.variant
    /\ IF a.variant = "SocketAddress"
       THEN /\ a.addr.family = b.addr.family
            /\ a.addr.ip = b.addr.ip
            /\ a.addr.port = b.addr.port
       ELSE /\ a.name = b.name
            /\ a.port = b.port

\* the number of bytes a slice or stream must hold according to its own tag
\* and, for a domain, its length byte; a missing tag or length byte counts
Required(d) ==
    IF Len(d) = 0 THEN 1
    ELSE IF d[1] = 1 THEN 7
    ELSE IF d[1] = 4 THEN 19
    ELSE IF d[1] = 3 THEN (IF Len(d) < 2 THEN 2 ELSE 4 + d[2])
    ELSE 1

\* TryFrom<Vec<u8>> has run from_data on data
Decoded == decoded.tag # "None"

\* C1 (round trip): once an address built by a constructor or by decoding has
\* been written to an empty buffer and the written bytes decoded, the decoder
\* returned Ok with an address of the same variant, ip or name, and port.
RoundTrip ==
    (cpc = "decoded" /\ mark = 0) =>
        /\ back.tag = "Ok"
        /\ SameAddress(back.value, address)

\* C2 (length consistency): what serialized_len returned is the number of
\* bytes write_to_buf appended: 7 for IPv4, 19 for IPv6, 4 + name.len() for a
\* domain.
LengthConsistency ==
    (cpc \in {"written", "decoded"} /\ slen # -1) =>
        /\ slen = Len(out) - mark
        /\ slen = IF address.variant = "DomainAddress"
                  THEN 4 + Len(address.name)
                  ELSE IF address.addr.family = "V4" THEN 7 ELSE 19

\* a domain address with a name longer than one length byte counts has been
\* appended to a buffer that held bytes, and its length computed
LengthConsistencyWitness ==
    /\ cpc = "written"
    /\ slen # -1
    /\ mark > 0
    /\ address.variant = "DomainAddress"
    /\ Len(address.name) > U8_MAX

\* C3 (truncation safety): from_data on a slice shorter than its own tag and
\* length byte imply returns an error: no panic, no Address.
TruncationSafety ==
    (Decoded /\ Len(data) < Required(data)) => decoded.tag = "Err"

\* C4 (bounded size): every address built by a constructor or by decoding has
\* a name of at most 255 bytes, and neither serialized_len nor the bytes
\* written exceed max_serialized_len = 259.
BoundedSize ==
    /\ (address # None /\ address.variant = "DomainAddress") =>
            Len(address.name) <= 255
    /\ slen <= 259
    /\ cpc \in {"written", "decoded"} => Len(out) - mark <= 259

\* C5 (stream tag rejection): once the stream has delivered a first byte
\* that is none of 0x01, 0x03, 0x04, both calls have returned the Unsupported
\* error naming that byte, and exactly one byte of the stream is consumed,
\* in this and so in every later state.
StreamTagRejection ==
    (Len(addr_data) >= 1 /\ addr_data[1] \notin {1, 3, 4}) =>
        /\ pc = "done"
        /\ consumed = 1
        /\ addr_data = <<input[1]>>
        /\ addr_ret = [tag |-> "Err", kind |-> "Unsupported", atyp |-> input[1]]
        /\ result = addr_ret

\* the stream held tag 0x02 and more bytes after it
StreamTagRejectionWitness ==
    /\ pc = "done"
    /\ Len(input) > MaxShort
    /\ input[1] = 2
    /\ consumed = 1
    /\ result.tag = "Err"
    /\ result.kind = "Unsupported"

\* C6 (exact consumption): when addr_data_from_stream returned Ok, whatever
\* the partial reads were, the bytes consumed are exactly the wire length the
\* tag and length byte declare, and the buffer returned is those bytes in
\* stream order.
ExactConsumption ==
    addr_ret.tag = "Ok" =>
        /\ input[1] \in {1, 3, 4}
        /\ consumed = Required(input)
        /\ consumed <= Len(input)
        /\ addr_ret.value = SubSeq(input, 1, consumed)

\* a domain of the longest declared length was read off a stream that held
\* more bytes after it
ExactConsumptionWitness ==
    /\ addr_ret.tag = "Ok"
    /\ input[1] = 3
    /\ input[2] = 255
    /\ consumed = 259
    /\ Len(input) > consumed

\* C7 (stream short read): when the stream holds fewer bytes than its tag and
\* length byte declare, both calls end with the stream's error: no buffer
\* and no Address is returned.
StreamShortRead ==
    (pc = "done" /\ Len(input) < Required(input)) =>
        /\ addr_ret.tag = "Err"
        /\ addr_ret.kind \in {"UnexpectedEof", "Other"}
        /\ result = addr_ret

\* a domain frame ended inside its payload, after every byte was consumed
StreamShortReadWitness ==
    /\ pc = "done"
    /\ Len(input) >= 3
    /\ input[1] = 3
    /\ Len(input) < Required(input)
    /\ consumed = Len(input)
    /\ result.tag = "Err"
    /\ result.kind = "UnexpectedEof"

\* C8 (buffer tag rejection): from_data on a non-empty slice whose first byte
\* is none of 0x01, 0x03, 0x04 returns the Unsupported error carrying that
\* byte, whatever follows it, and builds no Address.
BufferTagRejection ==
    (Decoded /\ Len(data) >= 1 /\ data[1] \notin {1, 3, 4}) =>
        /\ decoded = [tag |-> "Err", kind |-> "Unsupported", atyp |-> data[1]]
        /\ address = None

\* a slice of unknown tag long enough to hold an IPv6 address was decoded
BufferTagRejectionWitness ==
    /\ Decoded
    /\ Len(data) >= 19
    /\ data[1] = 255
    /\ decoded.tag = "Err"

\* C9 (UTF-8 rejection): from_data on a slice of tag 0x03 and length byte L
\* that holds at least L + 2 more bytes returns InvalidData when the L name
\* bytes are not valid UTF-8, and otherwise DomainAddress(name, port) with
\* the port big-endian from the two bytes after the name.
Utf8Rejection ==
    (Decoded /\ Len(data) >= 2 /\ data[1] = 3 /\ Len(data) >= 4 + data[2]) =>
        LET L == data[2]
            name == SubSeq(data, 3, 2 + L)
            port == data[3 + L] * 256 + data[4 + L]
        IN  IF IsUtf8(name)
            THEN decoded = [tag |-> "Ok",
                            value |-> [variant |-> "DomainAddress",
                                       name |-> name, port |-> port]]
            ELSE decoded = [tag |-> "Err", kind |-> "InvalidData", atyp |-> 0]

\* a domain slice with a name that is not UTF-8, its port and a byte more
\* was rejected
Utf8RejectionWitness ==
    /\ Decoded
    /\ Len(data) > 4 + MaxName
    /\ data[1] = 3
    /\ data[2] = MaxName
    /\ decoded.tag = "Err"
    /\ decoded.kind = "InvalidData"

\* C10 (stream read composed with decode): when addr_data_from_stream
\* returned Ok, from_data neither panicked nor ran out of bytes; from_stream
\* ends in a stream error, an unsupported tag, a name that is not UTF-8, or
\* the Address whose variant the tag fixes.
Composition ==
    pc = "done" =>
        /\ result.tag \in {"Ok", "Err"}
        /\ addr_ret.tag = "Err" =>
            /\ result = addr_ret
            /\ result.kind \in {"UnexpectedEof", "Other", "Unsupported"}
        /\ (addr_ret.tag = "Ok" /\ result.tag = "Err") =>
            /\ result.kind = "InvalidData"
            /\ input[1] = 3
            /\ ~IsUtf8(SubSeq(input, 3, 2 + input[2]))
        /\ result.tag = "Ok" =>
            /\ addr_ret.tag = "Ok"
            /\ IF input[1] = 3
               THEN /\ result.value.variant = "DomainAddress"
                    /\ result.value.name = SubSeq(input, 3, 2 + input[2])
               ELSE /\ result.value.variant = "SocketAddress"
                    /\ result.value.addr.family =
                            IF input[1] = 1 THEN "V4" ELSE "V6"

\* a domain whose name is an IP literal came off the stream as a
\* DomainAddress
CompositionWitness ==
    /\ pc = "done"
    /\ result.tag = "Ok"
    /\ result.value.variant = "DomainAddress"
    /\ result.value.name = IpLiteral

====
